---- MODULE Spec2Model ----
(***************************************************************************)
(* Report computation layer of the transaction dashboard (src/app.py):     *)
(* the CSV reader, Dataset Preparation (ensure_datetime_and_derived_       *)
(* columns), the column validator (has_columns) and the report dispatch.   *)
(*                                                                         *)
(* A text is a sequence of one-character strings, so that parsing,         *)
(* lower-casing, ordering and concatenation are computed, not assumed.     *)
(* A cell is a record [k, n, d, s]:                                        *)
(*   k = "nan"  missing value (NaN / None)                                 *)
(*   k = "nat"  missing datetime (NaT)                                     *)
(*   k = "num"  the number n / d (d >= 1, lowest terms)                    *)
(*   k = "str"  the text s                                                 *)
(*   k = "date" the calendar date n = year*10000 + month*100 + day         *)
(* A frame is [cols |-> sequence of column names, rows |-> sequence of     *)
(* rows], a row being a function from the column names to cells.           *)
(***************************************************************************)
EXTENDS Integers, Sequences, FiniteSets, TLC

VARIABLES
    upload,      \* the uploaded file: [readable, cols, rows] with text fields
    pc,          \* position of the script: start, loaded, stopped, ready
    df,          \* the shared dataset
    prepared,    \* df as Dataset Preparation returned it (history)
    preps,       \* how many times Dataset Preparation has been applied
    selected,    \* the report name chosen in the selectbox
    status,      \* outcome of the last report: none, info, ok, skipped, raised
    errors,      \* column names of the last st.error of has_columns
    result,      \* what the last report handed to the UI: sequence of entries
    computed,    \* the aggregate the last report built before display
    details,     \* the local frame of the Credit vs Debit branch
    prod_df,     \* the local total/avg frame of the quantile reports
    candidates   \* the rows of prod_df the quantile filter kept

vars == <<upload, pc, df, prepared, preps, selected, status, errors, result,
          computed, details, prod_df, candidates>>

-----------------------------------------------------------------------------
(* Texts *)

\* Characters in code-point order (Python compares str by code point).
Alphabet ==
    <<" ", "&", ",", "-", ".", "0", "1", "2", "3", "4", "5", "6", "7", "8", "9", ":",
      "A", "B", "C", "D", "E", "F", "G", "H", "I", "J", "K", "L", "M", "N", "O",
      "P", "Q", "R", "S", "T", "U", "V", "W", "X", "Y", "Z",
      "a", "b", "c", "d", "e", "f", "g", "h", "i", "j", "k", "l", "m", "n", "o",
      "p", "q", "r", "s", "t", "u", "v", "w", "x", "y", "z">>

CharCode(c) == CHOOSE i \in 1..Len(Alphabet) : Alphabet[i] = c

Upper == <<"A", "B", "C", "D", "E", "F", "G", "H", "I", "J", "K", "L", "M",
           "N", "O", "P", "Q", "R", "S", "T", "U", "V", "W", "X", "Y", "Z">>
Lower == <<"a", "b", "c", "d", "e", "f", "g", "h", "i", "j", "k", "l", "m",
           "n", "o", "p", "q", "r", "s", "t", "u", "v", "w", "x", "y", "z">>

LowerChar(c) ==
    IF \E i \in 1..Len(Upper) : Upper[i] = c
    THEN Lower[CHOOSE i \in 1..Len(Upper) : Upper[i] = c]
    ELSE c

\* str.lower()
LowerText(t) == [i \in 1..Len(t) |-> LowerChar(t[i])]

DigitChars == <<"0", "1", "2", "3", "4", "5", "6", "7", "8", "9">>

IsDigit(c) == \E i \in 1..10 : DigitChars[i] = c

DigitValue(c) == (CHOOSE i \in 1..10 : DigitChars[i] = c) - 1

IsDigits(t) == Len(t) > 0 /\ \A i \in 1..Len(t) : IsDigit(t[i])

RECURSIVE NumValue(_)
NumValue(t) ==
    IF Len(t) = 0 THEN 0
    ELSE 10 * NumValue(SubSeq(t, 1, Len(t) - 1)) + DigitValue(t[Len(t)])

RECURSIVE IntText(_)
IntText(n) ==
    IF n < 10 THEN <<DigitChars[n + 1]>>
    ELSE IntText(n \div 10) \o <<DigitChars[(n % 10) + 1]>>

RECURSIVE TextLess(_, _)
TextLess(a, b) ==
    IF Len(b) = 0 THEN FALSE
    ELSE IF Len(a) = 0 THEN TRUE
    ELSE IF a[1] = b[1] THEN TextLess(Tail(a), Tail(b))
    ELSE CharCode(a[1]) < CharCode(b[1])

-----------------------------------------------------------------------------
(* Cells *)

NaN == [k |-> "nan", n |-> 0, d |-> 1, s |-> <<>>]
NaT == [k |-> "nat", n |-> 0, d |-> 1, s |-> <<>>]
Num(x) == [k |-> "num", n |-> x, d |-> 1, s |-> <<>>]
Str(t) == [k |-> "str", n |-> 0, d |-> 1, s |-> t]
Date(y, m, dd) == [k |-> "date", n |-> y * 10000 + m * 100 + dd, d |-> 1, s |-> <<>>]

RECURSIVE Gcd(_, _)
Gcd(a, b) == IF b = 0 THEN a ELSE Gcd(b, a % b)

\* the number a / b (a >= 0, b >= 1) in lowest terms
Rat(a, b) ==
    LET g == Gcd(a, b)
    IN  [k |-> "num", n |-> a \div g, d |-> b \div g, s |-> <<>>]

IsNA(c) == c.k \in {"nan", "nat"}

NumLeq(a, b) == a.n * b.d <= b.n * a.d
NumLess(a, b) == a.n * b.d < b.n * a.d

Min(a, b) == IF a <= b THEN a ELSE b

-----------------------------------------------------------------------------
(* Frames *)

EmptyFrame == [cols |-> <<>>, rows |-> <<>>]

ColSet(d) == {d.cols[i] : i \in 1..Len(d.cols)}

\* df[c] as the sequence of the column's cells, in row order
Col(d, c) == [i \in 1..Len(d.rows) |-> d.rows[i][c]]

\* df[c] = values: replaces the column in place, or appends a new last column
SetColumn(d, c, values) ==
    [cols |-> IF c \in ColSet(d) THEN d.cols ELSE Append(d.cols, c),
     rows |-> [i \in 1..Len(d.rows) |->
                 [x \in ColSet(d) \cup {c} |->
                     IF x = c THEN values[i] ELSE d.rows[i][x]]]]

\* DataFrame.empty: any axis of length zero
DfEmpty(d) == Len(d.cols) = 0 \/ Len(d.rows) = 0

\* dtype of a column as the reader leaves it: object when a cell holds text
IsObject(column) == \E i \in 1..Len(column) : column[i].k = "str"

-----------------------------------------------------------------------------
(* read_csv_file *)

\* Type inference of pd.read_csv for one column: an empty field is NaN; the
\* column is numeric when every other field is a number, else it keeps text.
ColumnIsNumeric(file, c) ==
    \A i \in 1..Len(file.rows) :
        Len(file.rows[i][c]) = 0 \/ IsDigits(file.rows[i][c])

ReadField(file, c, t) ==
    IF Len(t) = 0 THEN NaN
    ELSE IF ColumnIsNumeric(file, c) THEN Num(NumValue(t))
    ELSE Str(t)

\* An unreadable file, or one with no columns, raises in pd.read_csv; the
\* handler reports it and returns an empty frame.
read_csv_file(file) ==
    IF ~file.readable \/ Len(file.cols) = 0 THEN EmptyFrame
    ELSE [cols |-> file.cols,
          rows |-> [i \in 1..Len(file.rows) |->
                      [c \in {file.cols[j] : j \in 1..Len(file.cols)} |->
                          ReadField(file, c, file.rows[i][c])]]]

-----------------------------------------------------------------------------
(* Dataset Preparation *)

MonthNames ==
    << <<"J","a","n","u","a","r","y">>, <<"F","e","b","r","u","a","r","y">>,
       <<"M","a","r","c","h">>, <<"A","p","r","i","l">>, <<"M","a","y">>,
       <<"J","u","n","e">>, <<"J","u","l","y">>, <<"A","u","g","u","s","t">>,
       <<"S","e","p","t","e","m","b","e","r">>, <<"O","c","t","o","b","e","r">>,
       <<"N","o","v","e","m","b","e","r">>, <<"D","e","c","e","m","b","e","r">> >>

IsLeap(y) == (y % 4 = 0 /\ y % 100 # 0) \/ y % 400 = 0

DaysInMonth(y, m) ==
    IF m = 2 THEN (IF IsLeap(y) THEN 29 ELSE 28)
    ELSE IF m \in {4, 6, 9, 11} THEN 30 ELSE 31

\* the text has the shape YYYY-MM-DD
IsIsoShape(t) ==
    /\ Len(t) = 10
    /\ t[5] = "-" /\ t[8] = "-"
    /\ \A i \in {1, 2, 3, 4, 6, 7, 9, 10} : IsDigit(t[i])

\* pd.to_datetime(text, errors="coerce"): a calendar date, else NaT
ParseDate(t) ==
    IF ~IsIsoShape(t) THEN NaT
    ELSE LET y == NumValue(SubSeq(t, 1, 4))
             m == NumValue(SubSeq(t, 6, 7))
             dd == NumValue(SubSeq(t, 9, 10))
         IN  IF m \in 1..12 /\ y >= 1 /\ dd >= 1 /\ dd <= DaysInMonth(y, m)
             THEN Date(y, m, dd) ELSE NaT

\* pd.to_datetime(cell, errors="coerce"); a number counts nanoseconds from
\* the epoch, and every number of the model falls on its first day.
to_datetime(c) ==
    IF c.k = "date" THEN c
    ELSE IF c.k = "str" THEN ParseDate(c.s)
    ELSE IF c.k = "num" THEN Date(1970, 1, 1)
    ELSE NaT

DateYear(c) == c.n \div 10000
DateMonth(c) == (c.n \div 100) % 100

\* Series.dt.month_name(): NaT gives a missing value
month_name(c) ==
    IF c.k = "date" THEN Str(MonthNames[DateMonth(c)]) ELSE NaN

\* Series.dt.to_period("Q").astype(str): the missing period is formatted
\* with its representation, the text NaT
quarter_label(c) ==
    IF c.k = "date"
    THEN Str(IntText(DateYear(c)) \o <<"Q">> \o IntText(((DateMonth(c) - 1) \div 3) + 1))
    ELSE Str(<<"N", "a", "T">>)

\* variant with a defect: month and quarter are derived even when supplied
ensure_always_derived(d) ==
    IF "t_date" \notin ColSet(d) THEN d
    ELSE LET dates == [i \in 1..Len(d.rows) |-> to_datetime(d.rows[i]["t_date"])]
             d1 == SetColumn(d, "t_date", dates)
             d2 == SetColumn(d1, "month", [i \in 1..Len(dates) |-> month_name(dates[i])])
         IN  SetColumn(d2, "quarter", [i \in 1..Len(dates) |-> quarter_label(dates[i])])

ensure_datetime_and_derived_columns(d) ==
    IF "t_date" \notin ColSet(d) THEN d
    ELSE LET dates == [i \in 1..Len(d.rows) |-> to_datetime(d.rows[i]["t_date"])]
             d1 == SetColumn(d, "t_date", dates)
             d2 == IF "month" \notin ColSet(d1)
                   THEN SetColumn(d1, "month", [i \in 1..Len(dates) |-> month_name(dates[i])])
                   ELSE d1
             d3 == IF "quarter" \notin ColSet(d2)
                   THEN SetColumn(d2, "quarter", [i \in 1..Len(dates) |-> quarter_label(dates[i])])
                   ELSE d2
         IN  d3

-----------------------------------------------------------------------------
(* Column validator *)

\* variant with a defect: only the first required column is looked up
MissingFirstColumn(d, cols) ==
    SelectSeq(SubSeq(cols, 1, 1), LAMBDA c : c \notin ColSet(d))

\* the list `missing` of has_columns, in the order of `cols`
MissingColumns(d, cols) == SelectSeq(cols, LAMBDA c : c \notin ColSet(d))

has_columns(d, cols) == MissingColumns(d, cols) = <<>>

-----------------------------------------------------------------------------
(* Series and group-by arithmetic *)

\* variant with a defect: the texts of an object column are not parsed
to_numeric_no_parse(c) == IF c.k = "num" THEN c ELSE NaN

\* pd.to_numeric(cell, errors="coerce")
to_numeric(c) ==
    IF c.k = "num" THEN c
    ELSE IF c.k = "str" /\ IsDigits(c.s) THEN Num(NumValue(c.s))
    ELSE NaN

RAdd(a, b) == Rat(a.n * b.d + b.n * a.d, a.d * b.d)
RSub(a, b) == Rat(a.n * b.d - b.n * a.d, a.d * b.d)
RMulInt(a, m) == Rat(a.n * m, a.d)
RDivInt(a, m) == Rat(a.n, a.d * m)

\* the cells of a sequence that are not missing, in order
NotNA(cells) == SelectSeq(cells, LAMBDA c : ~IsNA(c))

RECURSIVE SumNum(_)
SumNum(cells) ==
    IF Len(cells) = 0 THEN Num(0)
    ELSE RAdd(SumNum(SubSeq(cells, 1, Len(cells) - 1)), cells[Len(cells)])

RECURSIVE ConcatText(_)
ConcatText(cells) ==
    IF Len(cells) = 0 THEN <<>>
    ELSE ConcatText(SubSeq(cells, 1, Len(cells) - 1)) \o cells[Len(cells)].s

\* sum() of a column or of one group of it, missing cells skipped. On a
\* numeric column it adds; on an object column "+" joins the texts, and the
\* sum of nothing is the number 0.
SeriesSum(cells, object) ==
    LET present == NotNA(cells)
    IN  IF ~object THEN SumNum(present)
        ELSE IF Len(present) = 0 THEN Num(0)
        ELSE Str(ConcatText(present))

\* mean() of a numeric column or group, missing cells skipped
SeriesMean(cells) ==
    LET present == NotNA(cells)
    IN  IF Len(present) = 0 THEN NaN
        ELSE RDivInt(SumNum(present), Len(present))

\* max() of a numeric column, missing cells skipped
SeriesMax(cells) ==
    LET present == NotNA(cells)
    IN  IF Len(present) = 0 THEN NaN
        ELSE present[CHOOSE i \in 1..Len(present) :
                        \A j \in 1..Len(present) : NumLeq(present[j], present[i])]

\* a raised TypeError: values of two kinds cannot be ordered
Unorderable(cells) ==
    \E i, j \in 1..Len(cells) : cells[i].k = "str" /\ cells[j].k = "num"

\* a comes strictly before b in a sort; missing values go last either way
Precedes(a, b, descending) ==
    IF IsNA(a) THEN FALSE
    ELSE IF IsNA(b) THEN TRUE
    ELSE IF a.k = "str" /\ b.k = "str"
         THEN (IF descending THEN TextLess(b.s, a.s) ELSE TextLess(a.s, b.s))
    ELSE IF a.k = "str" \/ b.k = "str" THEN FALSE
    ELSE (IF descending THEN NumLess(b, a) ELSE NumLess(a, b))

\* sort_values on column v of a table: a stable sort (ties keep their order)
SortValues(table, v, descending) ==
    LET n == Len(table)
        Before(j, i) ==
            \/ Precedes(table[j].vals[v], table[i].vals[v], descending)
            \/ /\ ~Precedes(table[i].vals[v], table[j].vals[v], descending)
               /\ j < i
        Pos(i) == Cardinality({j \in 1..n : Before(j, i)}) + 1
    IN  [p \in 1..n |-> table[CHOOSE i \in 1..n : Pos(i) = p]]

\* head(n)
HeadRows(table, n) == SubSeq(table, 1, Min(n, Len(table)))

\* the distinct values of a column that are not missing
Distinct(cells) == {cells[i] : i \in {j \in 1..Len(cells) : ~IsNA(cells[j])}}

\* the group keys of groupby(column): missing keys are dropped (dropna=True)
\* and the keys come sorted ascending (sort=True)
GroupKeys(cells) ==
    LET ks == Distinct(cells)
        Pos(x) == Cardinality({y \in ks : Precedes(y, x, FALSE)}) + 1
    IN  [p \in 1..Cardinality(ks) |-> CHOOSE x \in ks : Pos(x) = p]

\* the positions of the rows whose key cell is `key`
GroupRows(keycells, key) ==
    SelectSeq([i \in 1..Len(keycells) |-> i], LAMBDA i : keycells[i] = key)

\* the cells of `cells` at the positions `at`
Take(cells, at) == [i \in 1..Len(at) |-> cells[at[i]]]

Entry(key, vals) == [key |-> key, vals |-> vals]

\* df.groupby(k)[v].sum()
GroupSum(keycells, cells, object) ==
    LET ks == GroupKeys(keycells)
    IN  [i \in 1..Len(ks) |->
            Entry(ks[i], <<SeriesSum(Take(cells, GroupRows(keycells, ks[i])), object)>>)]

\* df.groupby(k)[v].mean() on a numeric column
GroupMean(keycells, cells) ==
    LET ks == GroupKeys(keycells)
    IN  [i \in 1..Len(ks) |->
            Entry(ks[i], <<SeriesMean(Take(cells, GroupRows(keycells, ks[i])))>>)]

\* df.groupby(k).size()
GroupSize(keycells) ==
    LET ks == GroupKeys(keycells)
    IN  [i \in 1..Len(ks) |-> Entry(ks[i], <<Num(Len(GroupRows(keycells, ks[i])))>>)]

\* variant with a defect: nunique(dropna=False), one more for a missing value
NUniqueWithNA(cells) == Cardinality({cells[i] : i \in 1..Len(cells)})

\* Series.nunique(): missing values are not counted (dropna=True)
NUnique(cells) == Cardinality(Distinct(cells))

\* Series.value_counts(): missing values dropped, keys in order of first
\* appearance, then sorted by count, descending
ValueCounts(cells) ==
    LET first == SelectSeq([i \in 1..Len(cells) |-> i],
                           LAMBDA i : ~IsNA(cells[i]) /\ \A j \in 1..(i - 1) : cells[j] # cells[i])
        counts == [p \in 1..Len(first) |->
                     Entry(cells[first[p]], <<Num(Len(GroupRows(cells, cells[first[p]])))>>)]
    IN  SortValues(counts, 1, TRUE)

\* the positions of the rows of a frame whose column c holds the text t
RowsEqual(d, c, t) ==
    SelectSeq([i \in 1..Len(d.rows) |-> i], LAMBDA i : d.rows[i][c] = Str(t))

\* Series.quantile(num/4) with linear interpolation between ranked values;
\* missing values are skipped and the quantile of nothing is missing
Quantile(cells, num) ==
    LET present == NotNA(cells)
        n == Len(present)
        asTable == [i \in 1..n |-> Entry(NaN, <<present[i]>>)]
        ranked == SortValues(asTable, 1, FALSE)
        lo == ((n - 1) * num) \div 4
        rem == ((n - 1) * num) % 4
        a == ranked[lo + 1].vals[1]
        b == ranked[Min(lo + 2, n)].vals[1]
    IN  IF n = 0 THEN NaN
        ELSE RAdd(a, RDivInt(RMulInt(RSub(b, a), rem), 4))

\* a <= b on numbers; any comparison with a missing value is False
Leq(a, b) == ~IsNA(a) /\ ~IsNA(b) /\ NumLeq(a, b)

TxtOutdoorRecreation == <<"O", "u", "t", "d", "o", "o", "r", " ", "R", "e", "c", "r", "e", "a", "t", "i", "o", "n">>
TxtTeamSports == <<"T", "e", "a", "m", " ", "S", "p", "o", "r", "t", "s">>
TxtExerciseFitness == <<"E", "x", "e", "r", "c", "i", "s", "e", " ", "&", " ", "F", "i", "t", "n", "e", "s", "s">>
TxtCalifornia == <<"C", "a", "l", "i", "f", "o", "r", "n", "i", "a">>
TxtTexas == <<"T", "e", "x", "a", "s">>
TxtCredit == <<"c", "r", "e", "d", "i", "t">>
TxtCash == <<"c", "a", "s", "h">>
TxtNan == <<"n", "a", "n">>

-----------------------------------------------------------------------------
(* Report Engine: the branches of the dispatch *)

Reports ==
    <<"Select Report", "Total Sales", "Month With Highest Sales",
      "Average Transaction Amount Per Customer", "Highest Single Transaction",
      "Revenue By Service", "Revenue By Product", "Average Amount Per Service",
      "Unique Customers", "Top Customers By Spend",
      "Average Transactions Per Customer",
      "Customers Purchasing Multiple Services", "Percentage Of Repeat Buyers",
      "Popular Services By Count", "Most Purchased Product Per Service",
      "Average Amount Per Product", "State With Highest Total Sales",
      "City With Highest Number Of Transactions", "Average Spending Per State",
      "Services Popularity By State (Counts)",
      "Outdoor Recreation Revenue By State",
      "Compare Average Spending: California vs Texas",
      "Quarter With Highest Sales", "Total Sales By Month",
      "Team Sports Sales By Month",
      "Credit vs Debit: Counts, Revenue, Averages",
      "Cities By Average Transaction", "Exercise & Fitness: Top Products",
      "High Total, Low Avg Products", "Underperforming Services">>

ReportNames == {Reports[i] : i \in 1..Len(Reports)}

\* the list each branch hands to has_columns
RequiredColumns(r) ==
    CASE r = "Total Sales" -> <<"t_amt">>
      [] r = "Month With Highest Sales" -> <<"t_amt", "month">>
      [] r = "Average Transaction Amount Per Customer" -> <<"cust_id", "t_amt">>
      [] r = "Highest Single Transaction" -> <<"t_amt">>
      [] r = "Revenue By Service" -> <<"services", "t_amt">>
      [] r = "Revenue By Product" -> <<"products_used", "t_amt">>
      [] r = "Average Amount Per Service" -> <<"services", "t_amt">>
      [] r = "Unique Customers" -> <<"cust_id">>
      [] r = "Top Customers By Spend" -> <<"cust_id", "t_amt">>
      [] r = "Average Transactions Per Customer" -> <<"cust_id">>
      [] r = "Customers Purchasing Multiple Services" -> <<"cust_id", "services">>
      [] r = "Percentage Of Repeat Buyers" -> <<"cust_id">>
      [] r = "Popular Services By Count" -> <<"services">>
      [] r = "Most Purchased Product Per Service" -> <<"services", "products_used">>
      [] r = "Average Amount Per Product" -> <<"products_used", "t_amt">>
      [] r = "State With Highest Total Sales" -> <<"state", "t_amt">>
      [] r = "City With Highest Number Of Transactions" -> <<"city">>
      [] r = "Average Spending Per State" -> <<"state", "t_amt">>
      [] r = "Services Popularity By State (Counts)" -> <<"state", "services">>
      [] r = "Outdoor Recreation Revenue By State" -> <<"services", "state", "t_amt">>
      [] r = "Compare Average Spending: California vs Texas" -> <<"state", "t_amt">>
      [] r = "Quarter With Highest Sales" -> <<"quarter", "t_amt">>
      [] r = "Total Sales By Month" -> <<"month", "t_amt">>
      [] r = "Team Sports Sales By Month" -> <<"services", "month", "t_amt">>
      [] r = "Credit vs Debit: Counts, Revenue, Averages" -> <<"t_details", "t_amt">>
      [] r = "Cities By Average Transaction" -> <<"city", "t_amt">>
      [] r = "Exercise & Fitness: Top Products" -> <<"services", "products_used", "t_amt">>
      [] r = "High Total, Low Avg Products" -> <<"products_used", "t_amt">>
      [] r = "Underperforming Services" -> <<"services", "t_amt">>
      [] OTHER -> <<>>

\* the columns the body of each branch indexes (df[c], groupby(c))
BranchColumns(r) ==
    CASE r = "Total Sales" -> {"t_amt"}
      [] r = "Month With Highest Sales" -> {"month", "t_amt"}
      [] r = "Average Transaction Amount Per Customer" -> {"cust_id", "t_amt"}
      [] r = "Highest Single Transaction" -> {"t_amt"}
      [] r = "Revenue By Service" -> {"services", "t_amt"}
      [] r = "Revenue By Product" -> {"products_used", "t_amt"}
      [] r = "Average Amount Per Service" -> {"services", "t_amt"}
      [] r = "Unique Customers" -> {"cust_id"}
      [] r = "Top Customers By Spend" -> {"cust_id", "t_amt"}
      [] r = "Average Transactions Per Customer" -> {"cust_id"}
      [] r = "Customers Purchasing Multiple Services" -> {"cust_id", "services"}
      [] r = "Percentage Of Repeat Buyers" -> {"cust_id"}
      [] r = "Popular Services By Count" -> {"services"}
      [] r = "Most Purchased Product Per Service" -> {"services", "products_used"}
      [] r = "Average Amount Per Product" -> {"products_used", "t_amt"}
      [] r = "State With Highest Total Sales" -> {"state", "t_amt"}
      [] r = "City With Highest Number Of Transactions" -> {"city"}
      [] r = "Average Spending Per State" -> {"state", "t_amt"}
      [] r = "Services Popularity By State (Counts)" -> {"state", "services"}
      [] r = "Outdoor Recreation Revenue By State" -> {"services", "state", "t_amt"}
      [] r = "Compare Average Spending: California vs Texas" -> {"state", "t_amt"}
      [] r = "Quarter With Highest Sales" -> {"quarter", "t_amt"}
      [] r = "Total Sales By Month" -> {"month", "t_amt"}
      [] r = "Team Sports Sales By Month" -> {"services", "month", "t_amt"}
      [] r = "Credit vs Debit: Counts, Revenue, Averages" -> {"t_details", "t_amt"}
      [] r = "Cities By Average Transaction" -> {"city", "t_amt"}
      [] r = "Exercise & Fitness: Top Products" -> {"services", "products_used", "t_amt"}
      [] r = "High Total, Low Avg Products" -> {"products_used", "t_amt"}
      [] r = "Underperforming Services" -> {"services", "t_amt"}
      [] OTHER -> {}

\* What a branch leaves behind: its status, what it displayed, the aggregate
\* it built, and its local frames.
Outcome(st, shown, full) ==
    [status |-> st, shown |-> shown, full |-> full,
     details |-> EmptyFrame, frame |-> <<>>, kept |-> <<>>]

Scalar(c) == <<Entry(NaN, <<c>>)>>

AllRows(d) == [i \in 1..Len(d.rows) |-> i]

AmtIsObject(d) == IsObject(Col(d, "t_amt"))

Values(table) == [i \in 1..Len(table) |-> table[i].vals[1]]

\* df.groupby(key)["t_amt"].sum() over the rows `at`
SumBy(d, at, key) ==
    GroupSum(Take(Col(d, key), at), Take(Col(d, "t_amt"), at), AmtIsObject(d))

\* ....sum().sort_values(ascending=False), the first n rows displayed, then
\* idxmax() when the branch names the top group. Ordering texts with numbers
\* raises; idxmax raises on an empty Series and on an object Series.
RankOutcome(sorted, n, raises) ==
    Outcome(IF raises THEN "raised" ELSE "ok", HeadRows(sorted, n), sorted)

RankTable(table, n, top, object) ==
    IF Unorderable(Values(table)) THEN Outcome("raised", <<>>, <<>>)
    ELSE RankOutcome(SortValues(table, 1, TRUE), n, top /\ (Len(table) = 0 \/ object))

RankedSum(d, at, key, n, top) == RankTable(SumBy(d, at, key), n, top, AmtIsObject(d))

\* df.groupby(key)["t_amt"].sum() displayed in group order
Shown(table) == Outcome("ok", table, table)

PlainSum(d, at, key) == Shown(SumBy(d, at, key))

\* df.groupby(key)["t_amt"].mean().sort_values(ascending=False); the mean of
\* an object column raises
RankedMean(d, key, n) ==
    IF AmtIsObject(d) THEN Outcome("raised", <<>>, <<>>)
    ELSE RankOutcome(SortValues(GroupMean(Col(d, key), Col(d, "t_amt")), 1, TRUE), n, FALSE)

\* value_counts() displayed, then idxmax()
CountOutcome(counts, n) == RankOutcome(counts, n, Len(counts) = 0)

RankedCount(d, key, n) == CountOutcome(ValueCounts(Col(d, key)), n)

\* df[df["state"] == name]["t_amt"].mean()
StateMean(d, name) == SeriesMean(Take(Col(d, "t_amt"), RowsEqual(d, "state", name)))

CompareStates(d) ==
    LET pair == <<Entry(Str(TxtCalifornia), <<StateMean(d, TxtCalifornia)>>),
                  Entry(Str(TxtTexas), <<StateMean(d, TxtTexas)>>)>>
        chosen == RowsEqual(d, "state", TxtCalifornia) \o RowsEqual(d, "state", TxtTexas)
    IN  IF AmtIsObject(d) /\ Len(NotNA(Take(Col(d, "t_amt"), chosen))) > 0
        THEN Outcome("raised", <<>>, <<>>)
        ELSE Outcome("ok", pair, pair)

\* the rows where neither of two key columns is missing
BothPresent(d, a, b) ==
    SelectSeq(AllRows(d), LAMBDA i : ~IsNA(d.rows[i][a]) /\ ~IsNA(d.rows[i][b]))

\* groupby([a, b]).size() read at one pair of keys
PairCount(d, a, x, b, y) ==
    Cardinality({i \in 1..Len(d.rows) : d.rows[i][a] = x /\ d.rows[i][b] = y})

\* groupby(["services", "products_used"]).size().groupby(level=0).idxmax():
\* per service the first pair, in key order, with the largest count
MostPurchased(d) ==
    LET at == BothPresent(d, "services", "products_used")
        svcs == GroupKeys(Take(Col(d, "services"), at))
        Prods(x) == GroupKeys(Take(Col(d, "products_used"),
                        SelectSeq(at, LAMBDA i : d.rows[i]["services"] = x)))
        Cnt(x, y) == PairCount(d, "services", x, "products_used", y)
        Best(x) ==
            LET ps == Prods(x)
                i == CHOOSE a \in 1..Len(ps) :
                        /\ \A b \in 1..Len(ps) : Cnt(x, ps[b]) <= Cnt(x, ps[a])
                        /\ \A b \in 1..(a - 1) : Cnt(x, ps[b]) < Cnt(x, ps[a])
            IN  ps[i]
        table == [i \in 1..Len(svcs) |-> Entry(svcs[i], <<svcs[i], Best(svcs[i])>>)]
    IN  Outcome("ok", table, table)

\* groupby(["state", "services"]).size().unstack(fill_value=0): a header
\* entry with the service columns, then one entry of counts per state
Pivot(d) ==
    LET at == BothPresent(d, "state", "services")
        states == GroupKeys(Take(Col(d, "state"), at))
        svcs == GroupKeys(Take(Col(d, "services"), at))
        table == <<Entry(NaN, svcs)>> \o
                 [i \in 1..Len(states) |->
                    Entry(states[i],
                          [j \in 1..Len(svcs) |->
                              Num(PairCount(d, "state", states[i], "services", svcs[j]))])]
    IN  Outcome("ok", table, table)

\* groupby("cust_id")["services"].nunique(), kept where > 1
MultiService(d) ==
    LET ks == GroupKeys(Col(d, "cust_id"))
        multi == [i \in 1..Len(ks) |->
                    Entry(ks[i], <<Num(NUnique(Take(Col(d, "services"),
                                           GroupRows(Col(d, "cust_id"), ks[i]))))>>)]
        kept == SelectSeq(multi, LAMBDA e : e.vals[1].n > 1)
    IN  Outcome("ok", kept, kept)

RepeatBuyers(d) ==
    LET cust_count == ValueCounts(Col(d, "cust_id"))
        repeat == Len(SelectSeq(cust_count, LAMBDA e : e.vals[1].n > 1))
        total == Len(cust_count)
        pct == IF total > 0 THEN Rat(repeat * 100, total) ELSE Num(0)
    IN  Outcome("ok", Scalar(pct), Scalar(pct))

AvgTransactions(d) ==
    LET m == SeriesMean(Values(GroupSize(Col(d, "cust_id"))))
    IN  Outcome("ok", Scalar(m), Scalar(m))

\* Series.astype(str): a missing value becomes the text nan; a number of a
\* column that holds missing values is a float and prints with ".0"
AsTypeStr(c, float) ==
    IF c.k = "str" THEN c.s
    ELSE IF c.k = "num" THEN IntText(c.n) \o (IF float THEN <<".", "0">> ELSE <<>>)
    ELSE TxtNan

PayMethod(d) ==
    LET column == Col(d, "t_details")
        float == \E i \in 1..Len(column) : IsNA(column[i])
    IN  [i \in 1..Len(column) |-> Str(LowerText(AsTypeStr(column[i], float)))]

\* details = df.copy(); details["t_details_lower"] = ...
DetailsFrame(d) == SetColumn(d, "t_details_lower", PayMethod(d))

CreditDebit(d) ==
    LET det == DetailsFrame(d)
        credit == Take(Col(det, "t_amt"), RowsEqual(det, "t_details_lower", TxtCredit))
        cash == Take(Col(det, "t_amt"), RowsEqual(det, "t_details_lower", TxtCash))
        counts == <<Entry(Str(TxtCredit), <<Num(Len(credit))>>)>>
        avg_by_pay == GroupMean(PayMethod(d), Col(d, "t_amt"))
        shown == <<Entry(Str(TxtCredit), <<Num(Len(credit)), SumNum(NotNA(credit)), SeriesMean(credit)>>),
                   Entry(Str(TxtCash), <<Num(Len(cash)), SeriesMean(cash)>>)>> \o avg_by_pay
    IN  [(IF AmtIsObject(d) THEN Outcome("raised", counts, counts)
          ELSE Outcome("ok", shown, shown)) EXCEPT !.details = det]

\* pd.DataFrame({"total": groupby(key).sum(), "avg": groupby(key).mean()})
TotalAvgFrame(d, key) ==
    LET ks == GroupKeys(Col(d, key))
    IN  [i \in 1..Len(ks) |->
            LET cells == Take(Col(d, "t_amt"), GroupRows(Col(d, key), ks[i]))
            IN  Entry(ks[i], <<SeriesSum(cells, FALSE), SeriesMean(cells)>>)]

Totals(frame) == [i \in 1..Len(frame) |-> frame[i].vals[1]]
Avgs(frame) == [i \in 1..Len(frame) |-> frame[i].vals[2]]

\* variant with a defect: the two conditions joined by | instead of &
HighTotalOrLowAvg(frame) ==
    LET threshold == Quantile(Totals(frame), 3)
        median == Quantile(Avgs(frame), 2)
        keep == SelectSeq(frame, LAMBDA e : Leq(threshold, e.vals[1]) \/ Leq(e.vals[2], median))
    IN  SortValues(keep, 1, TRUE)

\* prod_df[(total >= total.quantile(0.75)) & (avg <= avg.median())]
\*     .sort_values("total", ascending=False)
HighTotalLowAvg(frame) ==
    LET threshold == Quantile(Totals(frame), 3)
        median == Quantile(Avgs(frame), 2)
        keep == SelectSeq(frame, LAMBDA e : Leq(threshold, e.vals[1]) /\ Leq(e.vals[2], median))
    IN  SortValues(keep, 1, TRUE)

\* svc_df[(total <= total.quantile(0.25)) & (avg <= avg.median())]
\*     .sort_values("total")
Underperforming(frame) ==
    LET low_threshold == Quantile(Totals(frame), 1)
        median == Quantile(Avgs(frame), 2)
        keep == SelectSeq(frame, LAMBDA e : Leq(e.vals[1], low_threshold) /\ Leq(e.vals[2], median))
    IN  SortValues(keep, 1, FALSE)

QuantileReport(d, key, high) ==
    LET frame == TotalAvgFrame(d, key)
        kept == IF high THEN HighTotalLowAvg(frame) ELSE Underperforming(frame)
    IN  IF AmtIsObject(d) THEN Outcome("raised", <<>>, <<>>)
        ELSE [Outcome("ok", kept, kept) EXCEPT !.frame = frame, !.kept = kept]

\* cust_total = ....head(10); st.write(cust_total.head())
TopN == 10
DefaultHead == 5

TopCustomers(d) ==
    LET table == SumBy(d, AllRows(d), "cust_id")
        cust_total == HeadRows(SortValues(table, 1, TRUE), TopN)
    IN  IF Unorderable(Values(table)) THEN Outcome("raised", <<>>, <<>>)
        ELSE Outcome("ok", HeadRows(cust_total, DefaultHead), cust_total)

\* pd.to_numeric(df["t_amt"], errors="coerce")
NumericAmounts(d) == [i \in 1..Len(d.rows) |-> to_numeric(d.rows[i]["t_amt"])]

TotalSales(d) ==
    LET total_sales == SeriesSum(NumericAmounts(d), FALSE)
    IN  Outcome("ok", Scalar(total_sales), Scalar(total_sales))

HighestTransaction(d) ==
    LET max_amount == SeriesMax(NumericAmounts(d))
    IN  Outcome("ok", Scalar(max_amount), Scalar(max_amount))

UniqueCustomers(d) ==
    LET unique_cust == Num(NUnique(Col(d, "cust_id")))
    IN  Outcome("ok", Scalar(unique_cust), Scalar(unique_cust))

\* the body of the branch of report r, entered once has_columns passed
BranchBody(r, d) ==
    CASE r = "Total Sales" -> TotalSales(d)
      [] r = "Month With Highest Sales" -> RankedSum(d, AllRows(d), "month", Len(d.rows), TRUE)
      [] r = "Average Transaction Amount Per Customer" -> RankedMean(d, "cust_id", Len(d.rows))
      [] r = "Highest Single Transaction" -> HighestTransaction(d)
      [] r = "Revenue By Service" -> RankedSum(d, AllRows(d), "services", Len(d.rows), TRUE)
      [] r = "Revenue By Product" -> RankedSum(d, AllRows(d), "products_used", 10, TRUE)
      [] r = "Average Amount Per Service" -> RankedMean(d, "services", Len(d.rows))
      [] r = "Unique Customers" -> UniqueCustomers(d)
      [] r = "Top Customers By Spend" -> TopCustomers(d)
      [] r = "Average Transactions Per Customer" -> AvgTransactions(d)
      [] r = "Customers Purchasing Multiple Services" -> MultiService(d)
      [] r = "Percentage Of Repeat Buyers" -> RepeatBuyers(d)
      [] r = "Popular Services By Count" -> RankedCount(d, "services", Len(d.rows))
      [] r = "Most Purchased Product Per Service" -> MostPurchased(d)
      [] r = "Average Amount Per Product" -> RankedMean(d, "products_used", Len(d.rows))
      [] r = "State With Highest Total Sales" -> RankedSum(d, AllRows(d), "state", 10, TRUE)
      [] r = "City With Highest Number Of Transactions" -> RankedCount(d, "city", 10)
      [] r = "Average Spending Per State" -> RankedMean(d, "state", Len(d.rows))
      [] r = "Services Popularity By State (Counts)" -> Pivot(d)
      [] r = "Outdoor Recreation Revenue By State" ->
            RankedSum(d, RowsEqual(d, "services", TxtOutdoorRecreation), "state", Len(d.rows), FALSE)
      [] r = "Compare Average Spending: California vs Texas" -> CompareStates(d)
      [] r = "Quarter With Highest Sales" -> RankedSum(d, AllRows(d), "quarter", Len(d.rows), TRUE)
      [] r = "Total Sales By Month" -> PlainSum(d, AllRows(d), "month")
      [] r = "Team Sports Sales By Month" ->
            PlainSum(d, RowsEqual(d, "services", TxtTeamSports), "month")
      [] r = "Credit vs Debit: Counts, Revenue, Averages" -> CreditDebit(d)
      [] r = "Cities By Average Transaction" -> RankedMean(d, "city", 10)
      [] r = "Exercise & Fitness: Top Products" ->
            RankedSum(d, RowsEqual(d, "services", TxtExerciseFitness), "products_used", 10, FALSE)
      [] r = "High Total, Low Avg Products" -> QuantileReport(d, "products_used", TRUE)
      [] r = "Underperforming Services" -> QuantileReport(d, "services", FALSE)

\* Indexing a column the frame does not have raises KeyError.
ReportOutcome(r, d) ==
    IF BranchColumns(r) \subseteq ColSet(d) THEN BranchBody(r, d)
    ELSE Outcome("raised", <<>>, <<>>)

\* variant with a defect: the Credit vs Debit branch adds its column to df
\* itself (details = df, without the copy)
SharedAfterWithoutCopy(r, d) ==
    IF r = "Credit vs Debit: Counts, Revenue, Averages" /\ has_columns(d, RequiredColumns(r))
    THEN DetailsFrame(d)
    ELSE d

\* The shared frame after the branch of report r: no branch assigns to df or
\* to one of its columns; the one branch that adds a column works on df.copy().
SharedAfter(r, d) == d

-----------------------------------------------------------------------------
(* The script *)

NoFile == [readable |-> FALSE, cols |-> <<>>, rows |-> <<>>]

InitRest ==
    /\ pc = "start"
    /\ df = EmptyFrame
    /\ prepared = EmptyFrame
    /\ preps = 0
    /\ selected = "Select Report"
    /\ status = "none"
    /\ errors = <<>>
    /\ result = <<>>
    /\ computed = <<>>
    /\ details = EmptyFrame
    /\ prod_df = <<>>
    /\ candidates = <<>>

\* df = read_csv_file(uploaded_file)
ReadCsv ==
    /\ pc = "start"
    /\ df' = read_csv_file(upload)
    /\ pc' = "loaded"
    /\ UNCHANGED <<upload, prepared, preps, selected, status, errors, result,
                   computed, details, prod_df, candidates>>

\* if df.empty: st.stop()
Stop ==
    /\ pc = "loaded"
    /\ DfEmpty(df)
    /\ pc' = "stopped"
    /\ UNCHANGED <<upload, df, prepared, preps, selected, status, errors, result,
                   computed, details, prod_df, candidates>>

\* df = ensure_datetime_and_derived_columns(df)
Prepare ==
    /\ pc = "loaded"
    /\ ~DfEmpty(df)
    /\ df' = ensure_datetime_and_derived_columns(df)
    /\ prepared' = df'
    /\ preps' = 1
    /\ pc' = "ready"
    /\ UNCHANGED <<upload, selected, status, errors, result, computed, details,
                   prod_df, candidates>>

\* One pass of the if/elif dispatch on the selected report.
Report(r) ==
    /\ pc = "ready"
    /\ selected' = r
    /\ df' = SharedAfter(r, df)
    /\ IF r = "Select Report"
       THEN /\ status' = "info"
            /\ errors' = <<>>
            /\ result' = <<>>
            /\ computed' = <<>>
            /\ details' = EmptyFrame
            /\ prod_df' = <<>>
            /\ candidates' = <<>>
       ELSE IF ~has_columns(df, RequiredColumns(r))
       THEN /\ status' = "skipped"
            /\ errors' = MissingColumns(df, RequiredColumns(r))
            /\ result' = <<>>
            /\ computed' = <<>>
            /\ details' = EmptyFrame
            /\ prod_df' = <<>>
            /\ candidates' = <<>>
       ELSE \E out \in {ReportOutcome(r, df)} :
                /\ status' = out.status
                /\ errors' = <<>>
                /\ result' = out.shown
                /\ computed' = out.full
                /\ details' = out.details
                /\ prod_df' = out.frame
                /\ candidates' = out.kept
    /\ UNCHANGED <<upload, pc, prepared, preps>>

-----------------------------------------------------------------------------
(* Uploads with any set of columns *)

AllColumns == <<"cust_id", "t_amt", "t_date", "services", "products_used",
                "state", "city", "t_details", "month", "quarter">>

\* three transactions; the fields of row i of an upload are those of
\* SampleRows[((i - 1) % 3) + 1]
SampleRows ==
    <<[cust_id |-> <<"A">>,
       t_amt |-> <<"1", "0">>,
       t_date |-> <<"2", "0", "2", "4", "-", "0", "1", "-", "1", "5">>,
       services |-> <<"O", "u", "t", "d", "o", "o", "r", " ", "R", "e", "c", "r", "e", "a", "t", "i", "o", "n">>,
       products_used |-> <<"P", "1">>,
       state |-> <<"C", "a", "l", "i", "f", "o", "r", "n", "i", "a">>,
       city |-> <<"L", "A">>,
       t_details |-> <<"C", "r", "e", "d", "i", "t">>,
       month |-> <<"M", "a", "r", "c", "h">>,
       quarter |-> <<"2", "0", "2", "3", "Q", "4">>],
      [cust_id |-> <<"B">>,
       t_amt |-> <<"5">>,
       t_date |-> <<"2", "0", "2", "4", "-", "0", "2", "-", "3", "0">>,
       services |-> <<"T", "e", "a", "m", " ", "S", "p", "o", "r", "t", "s">>,
       products_used |-> <<"P", "2">>,
       state |-> <<"T", "e", "x", "a", "s">>,
       city |-> <<"A", "u", "s", "t", "i", "n">>,
       t_details |-> <<"C", "A", "S", "H">>,
       month |-> <<>>,
       quarter |-> <<>>],
      [cust_id |-> <<"A">>,
       t_amt |-> <<"7">>,
       t_date |-> <<"2", "0", "2", "4", "-", "0", "5", "-", "0", "2">>,
       services |-> <<"E", "x", "e", "r", "c", "i", "s", "e", " ", "&", " ", "F", "i", "t", "n", "e", "s", "s">>,
       products_used |-> <<"P", "1">>,
       state |-> <<"C", "a", "l", "i", "f", "o", "r", "n", "i", "a">>,
       city |-> <<"L", "A">>,
       t_details |-> <<"c", "a", "s", "h">>,
       month |-> <<"M", "a", "y">>,
       quarter |-> <<"2", "0", "2", "4", "Q", "2">>]>>

MaxSampleRows == 2

SubSeqs(seq) ==
    {SelectSeq(seq, LAMBDA x : x \in keep) :
        keep \in SUBSET {seq[i] : i \in 1..Len(seq)}}

SampleFile(cols, n) ==
    [readable |-> TRUE,
     cols |-> cols,
     rows |-> [i \in 1..n |->
                 [c \in {cols[j] : j \in 1..Len(cols)} |->
                     SampleRows[((i - 1) % 3) + 1][c]]]]

\* the longest list a branch hands to has_columns
MaxRequired ==
    CHOOSE m \in 0..Len(AllColumns) :
        /\ \A r \in ReportNames : Len(RequiredColumns(r)) <= m
        /\ \E r \in ReportNames : Len(RequiredColumns(r)) = m

\* Uploads of the sample transactions in which any columns, as many as a
\* branch can require, are absent; a header-only file; an unreadable file.
Init ==
    /\ upload \in {NoFile} \cup
           {SampleFile(cols, n) :
               cols \in {c \in SubSeqs(AllColumns) : Len(AllColumns) - Len(c) <= MaxRequired},
               n \in 0..MaxSampleRows}
    /\ InitRest

Next ==
    \/ ReadCsv
    \/ Stop
    \/ Prepare
    \/ \E r \in ReportNames : Report(r)

Spec == Init /\ [][Next]_vars

-----------------------------------------------------------------------------
(* Uploads of customers, services and amounts *)

MaxRows == 2

AggColumns == <<"cust_id", "services", "t_amt">>

AggRows ==
    [cust_id : {<<"A">>, <<"B">>, <<>>},
     services : {<<"S", "1">>, <<"S", "2">>, <<>>},
     t_amt : {<<"1", "0">>, <<"7">>, <<"x">>, <<>>}]

AggReports == {"Total Sales", "Unique Customers", "Revenue By Service"}

InitAgg ==
    /\ upload \in {[readable |-> TRUE, cols |-> AggColumns, rows |-> rows] :
                      rows \in UNION {[1..n -> AggRows] : n \in 0..MaxRows}}
    /\ InitRest

NextAgg ==
    \/ ReadCsv
    \/ Stop
    \/ Prepare
    \/ \E r \in AggReports : Report(r)

SpecAgg == InitAgg /\ [][NextAgg]_vars

-----------------------------------------------------------------------------
(* Uploads of many customers *)

MaxTopRows == 12

CustId(i) == <<"C">> \o IntText(i)

\* n transactions spread over m customers, amounts 1..5 in a pattern set by a
TopFile(n, m, a) ==
    [readable |-> TRUE,
     cols |-> <<"cust_id", "t_amt">>,
     rows |-> [i \in 1..n |->
                 [cust_id |-> CustId(((i - 1) % m) + 1),
                  t_amt |-> IntText(((i * a) % 5) + 1)]]]

InitTop ==
    /\ upload \in {TopFile(n, m, a) : n \in 0..MaxTopRows, m \in 1..MaxTopRows, a \in 1..3}
    /\ InitRest

NextTop ==
    \/ ReadCsv
    \/ Stop
    \/ Prepare
    \/ Report("Top Customers By Spend")

SpecTop == InitTop /\ [][NextTop]_vars

-----------------------------------------------------------------------------
(* Uploads of dates with and without supplied month and quarter columns *)

MaxPreps == 2

DateFields == {<<"2", "0", "2", "4", "-", "0", "1", "-", "1", "5">>,
               <<"2", "0", "2", "3", "-", "1", "1", "-", "3", "0">>,
               <<"2", "0", "2", "4", "-", "0", "2", "-", "3", "0">>,
               <<>>}

MonthFields == {<<"M", "a", "r", "c", "h">>, <<>>}

QuarterFields == {<<"2", "0", "2", "3", "Q", "4">>, <<>>}

PrepRecords ==
    [t_amt : {<<"5">>}, t_date : DateFields, month : MonthFields, quarter : QuarterFields]

\* the rows of an upload with the columns cols
PrepRows(cols) ==
    {[c \in {cols[j] : j \in 1..Len(cols)} |-> r[c]] : r \in PrepRecords}

PrepReports == {"Quarter With Highest Sales", "Total Sales By Month"}

InitPrep ==
    /\ \E cols \in {<<"t_amt">> \o c : c \in SubSeqs(<<"t_date", "month", "quarter">>)} :
       \E n \in 0..MaxRows :
       \E rows \in [1..n -> PrepRows(cols)] :
           upload = [readable |-> TRUE, cols |-> cols, rows |-> rows]
    /\ InitRest

\* Dataset Preparation applied to its own result
Reprepare ==
    /\ pc = "ready"
    /\ preps < MaxPreps
    /\ df' = ensure_datetime_and_derived_columns(df)
    /\ preps' = preps + 1
    /\ UNCHANGED <<upload, pc, prepared, selected, status, errors, result,
                   computed, details, prod_df, candidates>>

NextPrep ==
    \/ ReadCsv
    \/ Stop
    \/ Prepare
    \/ Reprepare
    \/ \E r \in PrepReports : Report(r)

SpecPrep == InitPrep /\ [][NextPrep]_vars

-----------------------------------------------------------------------------
(* The quantile filters on total/avg frames *)

MaxProducts == 4

\* the total and the mean of a product: the pairs of the scenario of the
\* specification (totals 100, 90, 10, 5 with means 1, 50, 1, 50), a pair
\* that ties with them, and a product without amounts (total 0, no mean)
FrameVals ==
    {<<Num(100), Num(1)>>, <<Num(90), Num(50)>>, <<Num(10), Num(1)>>,
     <<Num(5), Num(50)>>, <<Num(90), Num(1)>>, <<Num(0), NaN>>}

\* the frame of n products P1..Pn with the totals and means v
Frame(n, v) == [i \in 1..n |-> Entry(Str(<<"P">> \o IntText(i)), v[i])]

InitFilter ==
    /\ upload = NoFile
    /\ pc = "frame"
    /\ df = EmptyFrame
    /\ prepared = EmptyFrame
    /\ preps = 0
    /\ selected = "Select Report"
    /\ status = "none"
    /\ errors = <<>>
    /\ result = <<>>
    /\ computed = <<>>
    /\ details = EmptyFrame
    /\ \E n \in 0..MaxProducts : \E v \in [1..n -> FrameVals] : prod_df = Frame(n, v)
    /\ candidates = <<>>

ApplyHighTotalLowAvg ==
    /\ pc = "frame"
    /\ candidates' = HighTotalLowAvg(prod_df)
    /\ pc' = "filtered_high"
    /\ UNCHANGED <<upload, df, prepared, preps, selected, status, errors, result,
                   computed, details, prod_df>>

ApplyUnderperforming ==
    /\ pc = "frame"
    /\ candidates' = Underperforming(prod_df)
    /\ pc' = "filtered_low"
    /\ UNCHANGED <<upload, df, prepared, preps, selected, status, errors, result,
                   computed, details, prod_df>>

NextFilter == ApplyHighTotalLowAvg \/ ApplyUnderperforming

SpecFilter == InitFilter /\ [][NextFilter]_vars

-----------------------------------------------------------------------------
(* Properties *)

ReportIndex(r) == CHOOSE i \in 1..Len(Reports) : Reports[i] = r

\* the "Required columns" of Table 1, in the order of the report list
Table1Required ==
    << {}, {"t_amt"}, {"t_amt", "month"}, {"cust_id", "t_amt"}, {"t_amt"},
       {"services", "t_amt"}, {"products_used", "t_amt"}, {"services", "t_amt"},
       {"cust_id"}, {"cust_id", "t_amt"}, {"cust_id"}, {"cust_id", "services"},
       {"cust_id"}, {"services"}, {"services", "products_used"},
       {"products_used", "t_amt"}, {"state", "t_amt"}, {"city"},
       {"state", "t_amt"}, {"state", "services"},
       {"services", "state", "t_amt"}, {"state", "t_amt"},
       {"quarter", "t_amt"}, {"month", "t_amt"},
       {"services", "month", "t_amt"}, {"t_details", "t_amt"},
       {"city", "t_amt"}, {"services", "products_used", "t_amt"},
       {"products_used", "t_amt"}, {"services", "t_amt"} >>

Ran == pc = "ready" /\ status \notin {"none", "info"}

UploadCols == {upload.cols[j] : j \in 1..Len(upload.cols)}

\* C1: for every report other than the sentinel, when a required column of
\* Table 1 is absent from the prepared dataset the report is skipped, the
\* absent columns are exactly the ones reported, nothing is aggregated and
\* nothing is raised; a report aggregates only with every required column
\* present.
C1_SkippedWhenColumnsMissing ==
    (Ran /\ selected # "Select Report") =>
        LET absent == Table1Required[ReportIndex(selected)] \ ColSet(df)
        IN  IF absent # {}
            THEN /\ status = "skipped"
                 /\ {errors[i] : i \in 1..Len(errors)} = absent
                 /\ Len(errors) = Cardinality(absent)
                 /\ result = <<>> /\ computed = <<>>
                 /\ details = EmptyFrame /\ prod_df = <<>>
            ELSE status \in {"ok", "raised"} /\ errors = <<>>

C1_Witness ==
    /\ Ran
    /\ status = "skipped"
    /\ selected = "Team Sports Sales By Month"
    /\ errors = <<"services", "t_amt">>

\* C2: a header-only upload (zero rows) whose columns include t_amt and
\* cust_id goes on to the reports, where Total Sales and Unique Customers
\* are computed as 0.
C2_ZeroRowsReportZero ==
    (upload.readable /\ Len(upload.rows) = 0 /\ {"t_amt", "cust_id"} \subseteq UploadCols) =>
        /\ pc # "stopped"
        /\ (Ran /\ selected \in {"Total Sales", "Unique Customers"}) =>
               (status = "ok" /\ result = Scalar(Num(0)))

\* C3: Dataset Preparation applied to its own result leaves the month and
\* quarter columns as the first application left them, and a month or
\* quarter column of the upload keeps the values supplied, whatever t_date
\* says.
C3_PrepareIdempotent ==
    pc = "ready" =>
        \A c \in {"month", "quarter"} :
            /\ (c \in ColSet(df)) = (c \in ColSet(prepared))
            /\ c \in ColSet(df) => Col(df, c) = Col(prepared, c)
            /\ c \in UploadCols =>
                   \A i \in 1..Len(upload.rows) :
                       df.rows[i][c] =
                           IF upload.rows[i][c] = <<>> THEN NaN ELSE Str(upload.rows[i][c])

C3_Witness ==
    /\ pc = "ready"
    /\ preps = 2
    /\ {"t_date", "month"} \subseteq UploadCols
    /\ "quarter" \notin UploadCols
    /\ \E i \in 1..Len(df.rows) :
          /\ df.rows[i]["t_date"].k = "date"
          /\ df.rows[i]["month"] # month_name(df.rows[i]["t_date"])

\* C4: when month and quarter are derived from t_date, every row whose
\* t_date is missing or unparsable has a missing month and a missing
\* quarter, and no group of Quarter With Highest Sales is keyed by it.
C4_MissingDateMissingLabels ==
    (pc = "ready" /\ "t_date" \in UploadCols) =>
        /\ \A i \in 1..Len(df.rows) :
              IsNA(df.rows[i]["t_date"]) =>
                  /\ "month" \notin UploadCols => IsNA(df.rows[i]["month"])
                  /\ "quarter" \notin UploadCols => IsNA(df.rows[i]["quarter"])
        /\ (Ran /\ selected = "Quarter With Highest Sales" /\ "quarter" \notin UploadCols) =>
              Len(computed) =
                  Cardinality({df.rows[i]["quarter"] : i \in {j \in 1..Len(df.rows) :
                                                                ~IsNA(df.rows[j]["t_date"])}})

\* C5 as stated: Unique Customers counts the distinct cust_id values, a
\* missing identifier counting once when some row has none.
C5_UniqueCountsMissingOnce ==
    (Ran /\ selected = "Unique Customers") =>
        result = Scalar(Num(Cardinality({upload.rows[i]["cust_id"] : i \in 1..Len(upload.rows)})))

\* C5 amended: Unique Customers is the number of distinct cust_id values
\* that are not missing; rows without an identifier add nothing.
C5_UniqueCountsPresentOnly ==
    (Ran /\ selected = "Unique Customers") =>
        /\ status = "ok"
        /\ result = Scalar(Num(Cardinality(
               {upload.rows[i]["cust_id"] : i \in 1..Len(upload.rows)} \ {<<>>})))

C5_Witness ==
    /\ Ran
    /\ selected = "Unique Customers"
    /\ \E i, j \in 1..Len(upload.rows) :
          upload.rows[i]["cust_id"] = <<>> /\ upload.rows[j]["cust_id"] # <<>>

\* the sum of the t_amt fields of the rows that are numbers
RECURSIVE NumericFieldSum(_)
NumericFieldSum(rows) ==
    IF Len(rows) = 0 THEN 0
    ELSE NumericFieldSum(SubSeq(rows, 1, Len(rows) - 1)) +
         (IF IsDigits(rows[Len(rows)]["t_amt"])
          THEN NumValue(rows[Len(rows)]["t_amt"]) ELSE 0)

\* C6: Total Sales is the sum of t_amt over exactly the rows whose t_amt is
\* a number; other rows add nothing and the report does not raise.
C6_TotalSalesNumericRows ==
    (Ran /\ selected = "Total Sales") =>
        /\ status = "ok"
        /\ result = Scalar(Num(NumericFieldSum(upload.rows)))

C6_Witness ==
    /\ Ran
    /\ selected = "Total Sales"
    /\ \E i, j \in 1..Len(upload.rows) :
          /\ upload.rows[i]["t_amt"] = <<"x">>
          /\ IsDigits(upload.rows[j]["t_amt"])

\* C7: the per-service totals of Revenue By Service are numbers and add up
\* to Total Sales over the rows whose services value is not missing, also
\* when some t_amt values are not numbers.
C7_ServiceTotalsAddUp ==
    (Ran /\ selected = "Revenue By Service") =>
        /\ \A i \in 1..Len(computed) : computed[i].vals[1].k = "num"
        /\ SumNum(Values(computed)) =
               Num(NumericFieldSum(SelectSeq(upload.rows, LAMBDA r : r["services"] # <<>>)))

\* C8: Top Customers By Spend shows, for every N from 5 to 50 the user may
\* choose, min(N, number of customers) entries.
C8_TopNUserChosen ==
    (Ran /\ selected = "Top Customers By Spend" /\ status = "ok") =>
        \A N \in 5..50 :
            Len(result) =
                Min(N, Cardinality({upload.rows[i]["cust_id"] : i \in 1..Len(upload.rows)}))

ExampleFrame ==
    <<Entry(Str(<<"P", "1">>), <<Num(100), Num(1)>>),
      Entry(Str(<<"P", "2">>), <<Num(90), Num(50)>>),
      Entry(Str(<<"P", "3">>), <<Num(10), Num(1)>>),
      Entry(Str(<<"P", "4">>), <<Num(5), Num(50)>>)>>

\* C9: High Total, Low Avg Products keeps exactly the products whose total
\* is at or above the 75th percentile of the totals and whose mean is at or
\* below the median of the means, ordered by total, descending; of totals
\* 100, 90, 10, 5 with means 1, 50, 1, 50 it keeps the first product only.
C9_HighTotalLowAvg ==
    pc = "filtered_high" =>
        LET threshold == Quantile(Totals(prod_df), 3)
            median == Quantile(Avgs(prod_df), 2)
        IN  /\ {candidates[i] : i \in 1..Len(candidates)} =
                   {prod_df[i] : i \in {j \in 1..Len(prod_df) :
                       /\ Leq(threshold, prod_df[j].vals[1])
                       /\ Leq(prod_df[j].vals[2], median)}}
            /\ Len(candidates) = Cardinality({candidates[i] : i \in 1..Len(candidates)})
            /\ \A i, j \in 1..Len(candidates) :
                   i < j => NumLeq(candidates[j].vals[1], candidates[i].vals[1])
            /\ prod_df = ExampleFrame => candidates = <<ExampleFrame[1]>>

C9_Witness ==
    /\ pc = "filtered_high"
    /\ prod_df = ExampleFrame
    /\ Len(candidates) = 1

\* C10: whatever reports are selected, in any order, skipped or not, the
\* shared dataset stays as Dataset Preparation returned it.
C10_DatasetReadOnly == pc = "ready" => df = prepared

C10_Witness ==
    /\ Ran
    /\ selected = "Credit vs Debit: Counts, Revenue, Averages"
    /\ status = "ok"
    /\ "t_details_lower" \in ColSet(details)
    /\ "t_details_lower" \notin ColSet(df)

====
